---------------------------- MODULE Spec2Model ----------------------------
(***************************************************************************)
(* A model of src-tauri/src/proxy/common/json_schema.rs: the in-place      *)
(* rewrite of a serde_json::Value by clean_json_schema, which first        *)
(* flattens `$ref`s against the root's `$defs`/`definitions`               *)
(* (flatten_refs) and then cleans every node                               *)
(* (clean_json_schema_recursive).                                          *)
(*                                                                         *)
(* A JSON value is a record whose field k is its kind, "null", "bool",     *)
(* "num", "str", "arr" or "obj", and whose field named by the kind holds   *)
(* what it holds: bool a BOOLEAN, num an integer, str a sequence of        *)
(* one-character strings, arr a sequence of values, obj a function from    *)
(* keys to values.  The fields of the other kinds are empty.               *)
(* Object keys are TLA+ strings; Spell gives the characters of a key where *)
(* the code turns a string value into a key or prints a key.               *)
(***************************************************************************)
EXTENDS Integers, Sequences, FiniteSets, TLC

VARIABLES
    input,  \* the value clean_json_schema was called on
    value,  \* the value, rewritten in place
    defs,   \* the definition table of clean_json_schema
    pc,     \* "start", "flatten", "clean", "done"; "overflow": the stack is exhausted
    calls,  \* the calls of flatten_refs or clean_json_schema_recursive in progress
    flat,   \* the value as the cleaner found it
    run,    \* 1: the first application, 2: the application to its result
    first   \* the result of the first application

vars == <<input, value, defs, pc, calls, flat, run, first>>

---------------------------------------------------------------------------
(* serde_json::Value constructors *)

EmptyMap == <<>>

Val(k, b, n, s, a, o) ==
    [k |-> k, bool |-> b, num |-> n, str |-> s, arr |-> a, obj |-> o]

Null == Val("null", FALSE, 0, <<>>, <<>>, EmptyMap)

Bool(b) == Val("bool", b, 0, <<>>, <<>>, EmptyMap)

Num(n) == Val("num", FALSE, n, <<>>, <<>>, EmptyMap)

Str(s) == Val("str", FALSE, 0, s, <<>>, EmptyMap)

Arr(s) == Val("arr", FALSE, 0, <<>>, s, EmptyMap)

Obj(f) == Val("obj", FALSE, 0, <<>>, <<>>, f)

---------------------------------------------------------------------------
(* serde_json::Map operations *)

HasKey(map, key) == key \in DOMAIN map

MapRemove(map, key) == [x \in DOMAIN map \ {key} |-> map[x]]

MapRemoveAll(map, keys) == [x \in DOMAIN map \ keys |-> map[x]]

MapInsert(map, key, val) ==
    [x \in DOMAIN map \cup {key} |-> IF x = key THEN val ELSE map[x]]

\* map.extend(d): the entries of d replace those of map
MapExtend(map, d) ==
    [x \in DOMAIN map \cup DOMAIN d |-> IF x \in DOMAIN d THEN d[x] ELSE map[x]]

---------------------------------------------------------------------------
(* Strings *)

UpperChars ==
    <<"A","B","C","D","E","F","G","H","I","J","K","L","M",
      "N","O","P","Q","R","S","T","U","V","W","X","Y","Z">>

LowerChars ==
    <<"a","b","c","d","e","f","g","h","i","j","k","l","m",
      "n","o","p","q","r","s","t","u","v","w","x","y","z">>

LowerChar(c) ==
    IF \E i \in DOMAIN UpperChars : UpperChars[i] = c
    THEN LowerChars[CHOOSE i \in DOMAIN UpperChars : UpperChars[i] = c]
    ELSE c

\* str::to_lowercase on the ASCII characters of the model
ToLowercase(s) == [i \in 1..Len(s) |-> LowerChar(s[i])]

\* ref_path.split('/').last(): what follows the last '/', all of it when
\* there is none (split always yields an item, so unwrap_or never applies)
LastSegment(s) ==
    LET slashes == {i \in 1..Len(s) : s[i] = "/"}
    IN  IF slashes = {} THEN s
        ELSE LET last == CHOOSE i \in slashes : \A j \in slashes : j <= i
             IN  SubSeq(s, last + 1, Len(s))

\* the strings of a sequence from the i-th on, one after the other, with
\* sep between them
RECURSIVE JoinFrom(_, _, _)
JoinFrom(ss, sep, i) ==
    IF i > Len(ss) THEN <<>>
    ELSE IF i = Len(ss) THEN ss[i]
    ELSE ss[i] \o sep \o JoinFrom(ss, sep, i + 1)

\* [String]::join(sep)
Join(ss, sep) == JoinFrom(ss, sep, 1)

Concat(ss) == JoinFrom(ss, <<>>, 1)

---------------------------------------------------------------------------
(* Keys: every key of the model, in the byte order in which serde_json's    *)
(* BTreeMap iterates, each with its spelling.                              *)

KeyTable ==
    << <<"$defs", <<"$","d","e","f","s">> >>,
       <<"$ref", <<"$","r","e","f">> >>,
       <<"$schema", <<"$","s","c","h","e","m","a">> >>,
       <<"A", <<"A">> >>,
       <<"B", <<"B">> >>,
       <<"C", <<"C">> >>,
       <<"additionalProperties",
         <<"a","d","d","i","t","i","o","n","a","l",
           "P","r","o","p","e","r","t","i","e","s">> >>,
       <<"default", <<"d","e","f","a","u","l","t">> >>,
       <<"definitions", <<"d","e","f","i","n","i","t","i","o","n","s">> >>,
       <<"description", <<"d","e","s","c","r","i","p","t","i","o","n">> >>,
       <<"enumCaseInsensitive",
         <<"e","n","u","m","C","a","s","e",
           "I","n","s","e","n","s","i","t","i","v","e">> >>,
       <<"enumNormalizeWhitespace",
         <<"e","n","u","m","N","o","r","m","a","l","i","z","e",
           "W","h","i","t","e","s","p","a","c","e">> >>,
       <<"exclusiveMaximum",
         <<"e","x","c","l","u","s","i","v","e","M","a","x","i","m","u","m">> >>,
       <<"exclusiveMinimum",
         <<"e","x","c","l","u","s","i","v","e","M","i","n","i","m","u","m">> >>,
       <<"format", <<"f","o","r","m","a","t">> >>,
       <<"home", <<"h","o","m","e">> >>,
       <<"items", <<"i","t","e","m","s">> >>,
       <<"maxItems", <<"m","a","x","I","t","e","m","s">> >>,
       <<"maxLength", <<"m","a","x","L","e","n","g","t","h">> >>,
       <<"maximum", <<"m","a","x","i","m","u","m">> >>,
       <<"minItems", <<"m","i","n","I","t","e","m","s">> >>,
       <<"minLength", <<"m","i","n","L","e","n","g","t","h">> >>,
       <<"minimum", <<"m","i","n","i","m","u","m">> >>,
       <<"multipleOf", <<"m","u","l","t","i","p","l","e","O","f">> >>,
       <<"pattern", <<"p","a","t","t","e","r","n">> >>,
       <<"properties", <<"p","r","o","p","e","r","t","i","e","s">> >>,
       <<"type", <<"t","y","p","e">> >>,
       <<"uniqueItems", <<"u","n","i","q","u","e","I","t","e","m","s">> >>,
       <<"unit", <<"u","n","i","t">> >> >>

Keys == {KeyTable[i][1] : i \in DOMAIN KeyTable}

Spell(key) == KeyTable[CHOOSE i \in DOMAIN KeyTable : KeyTable[i][1] = key][2]

\* the keys of a map in iteration order
KeySeq(map) ==
    LET Present(e) == e[1] \in DOMAIN map
        es == SelectSeq(KeyTable, Present)
    IN  [i \in 1..Len(es) |-> es[i][1]]

\* Map::get(name) for a name held as a string value
MapGet(map, name) ==
    IF \E key \in DOMAIN map : Spell(key) = name
    THEN {map[CHOOSE key \in DOMAIN map : Spell(key) = name]}
    ELSE {}

---------------------------------------------------------------------------
(* impl Display for Value, as used by format!("{}: {}", label, val):       *)
(* the compact JSON text.                                                  *)

DigitChars == <<"0","1","2","3","4","5","6","7","8","9">>

RECURSIVE Digits(_)
Digits(n) ==
    IF n < 10 THEN <<DigitChars[n + 1]>>
    ELSE Digits(n \div 10) \o <<DigitChars[(n % 10) + 1]>>

EscapeChar(c) ==
    IF c = "\"" THEN <<"\\", "\"">>
    ELSE IF c = "\\" THEN <<"\\", "\\">>
    ELSE <<c>>

Quoted(s) ==
    <<"\"">> \o Concat([i \in 1..Len(s) |-> EscapeChar(s[i])]) \o <<"\"">>

RECURSIVE Display(_)
Display(val) ==
    CASE val.k = "null" -> <<"n","u","l","l">>
      [] val.k = "bool" ->
            IF val.bool THEN <<"t","r","u","e">> ELSE <<"f","a","l","s","e">>
      [] val.k = "num" ->
            IF val.num < 0 THEN <<"-">> \o Digits(0 - val.num) ELSE Digits(val.num)
      [] val.k = "str" -> Quoted(val.str)
      [] val.k = "arr" ->
            <<"[">> \o Join([i \in 1..Len(val.arr) |-> Display(val.arr[i])], <<",">>)
                    \o <<"]">>
      [] val.k = "obj" ->
            LET ks == KeySeq(val.obj)
            IN  <<"{">> \o Join([i \in 1..Len(ks) |->
                                  Quoted(Spell(ks[i])) \o <<":">> \o Display(val.obj[ks[i]])],
                               <<",">>)
                      \o <<"}">>

---------------------------------------------------------------------------
(* Places in the tree.  A path is a sequence of steps, a step being the key *)
(* of an object entry or the index of an array element.                    *)

Key(key) == [key |-> key, idx |-> 0]

Idx(i) == [key |-> "", idx |-> i]

Child(val, step) == IF val.k = "obj" THEN val.obj[step.key] ELSE val.arr[step.idx]

RECURSIVE Get(_, _)
Get(val, path) ==
    IF path = <<>> THEN val ELSE Get(Child(val, Head(path)), Tail(path))

\* the value with what is at a path replaced: the write through `&mut`
RECURSIVE Put(_, _, _)
Put(val, path, new) ==
    IF path = <<>> THEN new
    ELSE LET step == Head(path)
             sub == Put(Child(val, step), Tail(path), new)
         IN  IF val.k = "obj"
             THEN Obj([val.obj EXCEPT ![step.key] = sub])
             ELSE Arr([val.arr EXCEPT ![step.idx] = sub])

IsPrefix(p, q) == Len(p) <= Len(q) /\ SubSeq(q, 1, Len(p)) = p

---------------------------------------------------------------------------
(* flatten_refs, the part of one call that works on its own map *)

\* as MergeDef, were each key of the definition inserted over the map's own
MergeDefOverwrites(map, def_map) ==
    [x \in DOMAIN map \cup DOMAIN def_map |->
        IF x \in DOMAIN def_map THEN def_map[x] ELSE map[x]]

\* for (k, v) in def_map { map.entry(k.clone()).or_insert_with(|| v.clone()); }
MergeDef(map, def_map) ==
    [x \in DOMAIN map \cup DOMAIN def_map |->
        IF x \in DOMAIN map THEN map[x] ELSE def_map[x]]

\* as ResolveRef, were `$ref` read with get and left in the map
ResolveRefKeepsRef(map, table) ==
    IF ~HasKey(map, "$ref") THEN [map |-> map, merged |-> FALSE]
    ELSE LET ref == map["$ref"]
             found == IF ref.k = "str" THEN MapGet(table, LastSegment(ref.str)) ELSE {}
         IN  IF \E d \in found : d.k = "obj"
             THEN [map |-> MergeDef(map, (CHOOSE d \in found : TRUE).obj),
                   merged |-> TRUE]
             ELSE [map |-> map, merged |-> FALSE]

\* as ResolveRef, were the call on the same map made whether or not a
\* definition was merged
ResolveRefAlwaysRecurses(map, table) ==
    IF ~HasKey(map, "$ref") THEN [map |-> map, merged |-> TRUE]
    ELSE LET removed == MapRemove(map, "$ref")
             ref == map["$ref"]
             found == IF ref.k = "str" THEN MapGet(table, LastSegment(ref.str)) ELSE {}
         IN  IF \E d \in found : d.k = "obj"
             THEN [map |-> MergeDef(removed, (CHOOSE d \in found : TRUE).obj),
                   merged |-> TRUE]
             ELSE [map |-> removed, merged |-> TRUE]

\* if let Some(Value::String(ref_path)) = map.remove("$ref") { ... } up to
\* the recursive call: the map afterwards, and whether a definition was
\* merged (the call then recurses on the same map)
ResolveRef(map, table) ==
    IF ~HasKey(map, "$ref") THEN [map |-> map, merged |-> FALSE]
    ELSE LET removed == MapRemove(map, "$ref")
             ref == map["$ref"]
             found == IF ref.k = "str" THEN MapGet(table, LastSegment(ref.str)) ELSE {}
         IN  IF \E d \in found : d.k = "obj"
             THEN [map |-> MergeDef(removed, (CHOOSE d \in found : TRUE).obj),
                   merged |-> TRUE]
             ELSE [map |-> removed, merged |-> FALSE]

\* for (_, v) in map.iter_mut(): the object values, and the object elements
\* of the array values
FlattenChildren(map) ==
    {<<Key(key)>> : key \in {x \in DOMAIN map : map[x].k = "obj"}}
    \cup UNION {{<<Key(key), Idx(i)>> :
                    i \in {j \in DOMAIN map[key].arr : map[key].arr[j].k = "obj"}} :
                key \in {x \in DOMAIN map : map[x].k = "arr"}}

---------------------------------------------------------------------------
(* clean_json_schema_recursive, the part of one call that works on its own *)
(* map                                                                     *)

ValidationFields ==
    << <<"minLength", <<"m","i","n","L","e","n">> >>,
       <<"maxLength", <<"m","a","x","L","e","n">> >>,
       <<"minimum", <<"m","i","n">> >>,
       <<"maximum", <<"m","a","x">> >>,
       <<"minItems", <<"m","i","n","I","t","e","m","s">> >>,
       <<"maxItems", <<"m","a","x","I","t","e","m","s">> >>,
       <<"exclusiveMinimum", <<"e","x","c","l","M","i","n">> >>,
       <<"exclusiveMaximum", <<"e","x","c","l","M","a","x">> >>,
       <<"multipleOf", <<"m","u","l","t","i","p","l","e","O","f">> >>,
       <<"pattern", <<"p","a","t","t","e","r","n">> >> >>

ValidationKeys == {ValidationFields[i][1] : i \in DOMAIN ValidationFields}

OtherFieldsToRemove ==
    {"$schema", "additionalProperties", "enumCaseInsensitive",
     "enumNormalizeWhitespace", "uniqueItems", "format", "default"}

\* if let Some(val) = map.remove(field) { constraints.push(format!("{}: {}", label, val)) }
Constraints(map) ==
    LET Present(f) == HasKey(map, f[1])
        fs == SelectSeq(ValidationFields, Present)
    IN  [i \in 1..Len(fs) |-> fs[i][2] \o <<":", " ">> \o Display(map[fs[i][1]])]

\* format!(" [Validation: {}]", constraints.join(", "))
Suffix(constraints) ==
    <<" ", "[", "V","a","l","i","d","a","t","i","o","n", ":", " ">>
    \o Join(constraints, <<",", " ">>) \o <<"]">>

\* steps 1 and 2: the validation fields move into the description
SoftRemove(map) ==
    LET constraints == Constraints(map)
        removed == MapRemoveAll(map, ValidationKeys)
    IN  IF constraints = <<>> THEN removed
        ELSE LET entry == IF HasKey(removed, "description") THEN removed
                          ELSE MapInsert(removed, "description", Str(<<>>))
                 desc == entry["description"]
             IN  IF desc.k = "str"
                 THEN MapInsert(entry, "description", Str(desc.str \o Suffix(constraints)))
                 ELSE entry

\* as LowerItem, were the elements of a `type` array left as they are
ItemAsIs(item) == item

\* item.to_lowercase() on the string elements
LowerItem(item) == IF item.k = "str" THEN Str(ToLowercase(item.str)) ELSE item

\* step 4: the type field
NormalizeType(map) ==
    IF ~HasKey(map, "type") THEN map
    ELSE LET t == map["type"]
         IN  CASE t.k = "str" -> MapInsert(map, "type", Str(ToLowercase(t.str)))
               [] t.k = "arr" ->
                    MapInsert(map, "type", Arr([i \in 1..Len(t.arr) |-> LowerItem(t.arr[i])]))
               [] OTHER -> map

\* as RemoveOthers, were `format` missing from the list
RemoveOthersButFormat(map) == MapRemoveAll(map, OtherFieldsToRemove \ {"format"})

\* step 3: the other fields
RemoveOthers(map) == MapRemoveAll(map, OtherFieldsToRemove)

\* steps 1 to 4, each on the map the step before it left
CleanOwn(map) ==
    CHOOSE cleaned \in
        {NormalizeType(kept) :
            kept \in {RemoveOthers(soft) : soft \in {SoftRemove(map)}}} : TRUE

\* Value::Object(map) => steps 1 to 4; an array or a scalar is not rewritten
CleanNode(val) == IF val.k = "obj" THEN Obj(CleanOwn(val.obj)) ELSE val

\* the values a call recurses into: every value of an object, every element
\* of an array.  A call on a scalar is the `_ => {}` arm, which returns at
\* once and changes nothing, so only objects and arrays get a call here.
CleanChildren(val) ==
    CASE val.k = "obj" ->
            {<<Key(key)>> : key \in {x \in DOMAIN val.obj : val.obj[x].k \in {"obj", "arr"}}}
      [] val.k = "arr" ->
            {<<Idx(i)>> : i \in {j \in DOMAIN val.arr : val.arr[j].k \in {"obj", "arr"}}}
      [] OTHER -> {}

---------------------------------------------------------------------------
(* The schemas the transform is run on *)

S_string == Str(<<"s","t","r","i","n","g">>)

S_number == Str(<<"n","u","m","b","e","r">>)

S_object == Str(<<"o","b","j","e","c","t">>)

S_OBJECT == Str(<<"O","B","J","E","C","T">>)

S_String == Str(<<"S","t","r","i","n","g">>)

S_Null == Str(<<"N","u","l","l">>)

S_desc == Str(<<"d">>)

S_city == Str(<<"c","i","t","y">>)

S_pattern == Str(<<"^","\\","d","\"">>)

\* "#/$defs/<name>"
RefTo(name) == Str(<<"#", "/", "$","d","e","f","s", "/">> \o Spell(name))

\* a reference without any '/'
BareRef(name) == Str(Spell(name))

\* the values of `$defs`
DefsAddress ==
    Obj("A" :> Obj("type" :> S_OBJECT
                   @@ "properties" :> Obj("home" :> Obj("type" :> S_String
                                                       @@ "minLength" :> Num(1)))))

DefsChain ==
    Obj("A" :> Obj("$ref" :> RefTo("B") @@ "type" :> S_object @@ "format" :> S_city)
        @@ "B" :> Obj("type" :> S_string @@ "maxLength" :> Num(5)
                      @@ "description" :> S_desc))

DefsShared ==
    Obj("A" :> Obj("properties" :> Obj("home" :> Obj("$ref" :> RefTo("B"))
                                       @@ "unit" :> Obj("$ref" :> BareRef("B"))))
        @@ "B" :> Obj("type" :> Arr(<<S_String, S_Null>>) @@ "minimum" :> Num(0)))

DefsNested ==
    Obj("A" :> Obj("$defs" :> Obj("B" :> Obj("type" :> S_string))
                   @@ "definitions" :> Obj("B" :> Obj("type" :> S_number))
                   @@ "type" :> S_object))

DefsScalar == Obj("A" :> Num(5) @@ "B" :> Obj("type" :> S_string))

DefsSelf == Obj("A" :> Obj("$ref" :> RefTo("A")))

DefsLoop ==
    Obj("A" :> Obj("$ref" :> RefTo("B")) @@ "B" :> Obj("$ref" :> RefTo("A")))

DefsItems ==
    Obj("A" :> Obj("items" :> Arr(<<Obj("$ref" :> RefTo("A"))>>)))

DefsEmpty == Obj(EmptyMap)

DefsTables ==
    {DefsAddress, DefsChain, DefsShared, DefsNested, DefsScalar,
     DefsSelf, DefsLoop, DefsItems, DefsEmpty, Num(1)}

\* the values of `definitions`
DefinitionsTables == {Obj("A" :> Obj("type" :> S_number))}

\* a schema under `properties`
RefLeaves ==
    {Obj("$ref" :> RefTo("A")),
     Obj("$ref" :> RefTo("A") @@ "type" :> S_number @@ "description" :> S_desc),
     Obj("$ref" :> RefTo("C")),
     Obj("$ref" :> Num(7) @@ "type" :> S_String),
     Obj("items" :> Arr(<<Obj("$ref" :> RefTo("A")),
                          Arr(<<Obj("$ref" :> RefTo("B"))>>)>>))}

CleanLeaves ==
    {Obj("type" :> S_String @@ "minLength" :> Num(1) @@ "format" :> S_city),
     Obj("type" :> Arr(<<S_String, S_Null, Num(3)>>) @@ "default" :> S_city),
     Obj("minimum" :> Num(0) @@ "maximum" :> Num(10) @@ "pattern" :> S_pattern
         @@ "description" :> S_desc),
     Obj("minLength" :> Num(1) @@ "description" :> Null
         @@ "type" :> Arr(<<S_OBJECT, Obj("format" :> S_city)>>)),
     Obj("type" :> Num(1) @@ "uniqueItems" :> Bool(TRUE)
         @@ "items" :> Arr(<<Obj("type" :> S_OBJECT @@ "multipleOf" :> Num(-2))>>)),
     Obj("properties" :> Obj("format" :> Obj("type" :> S_string)
                             @@ "description" :> Obj("type" :> S_String)
                             @@ "maxItems" :> Obj("exclusiveMinimum" :> Num(1))))}

\* an optional entry of an object
Entry(key, vals) == {EmptyMap} \cup {key :> val : val \in vals}

RefRoots ==
    {Obj(MapExtend(MapExtend(MapExtend(d, e), r), "properties" :> Obj("home" :> leaf))) :
        d \in Entry("$defs", DefsTables),
        e \in Entry("definitions", DefinitionsTables),
        r \in Entry("$ref", {RefTo("A"), BareRef("B")}),
        leaf \in RefLeaves}

CleanRoots ==
    {Obj("$schema" :> S_city @@ "type" :> S_OBJECT
         @@ "properties" :> Obj("home" :> l1 @@ "unit" :> l2)) :
        l1 \in CleanLeaves, l2 \in CleanLeaves}

OtherRoots ==
    {Null, Num(1), S_String,
     Arr(<<Obj("$ref" :> RefTo("A") @@ "type" :> S_String @@ "format" :> S_city)>>)}

Inputs == RefRoots \cup CleanRoots \cup OtherRoots

\* the schemas on which termination is followed: those with a `$defs` table
\* alone, referred to from a property (or from an array under it) and, or
\* not, from the root.  DefsNested is referred to from a property only.
TerminationInputs ==
    {root \in RefRoots :
        /\ HasKey(root.obj, "$defs")
        /\ ~HasKey(root.obj, "definitions")
        /\ HasKey(root.obj, "$ref") =>
              root.obj["$ref"] = RefTo("A") /\ root.obj["$defs"] # DefsNested}

---------------------------------------------------------------------------
(* The calls in progress.  A call is [path, depth, st]: the place of the   *)
(* value it was given, its depth on the call stack, and where it stands.   *)
(* The calls a call has made and not yet seen return are those deeper than *)
(* it at or below its path.  The order in which the calls on the children  *)
(* of one node run is left open; the loops of the source run them one      *)
(* after the other.                                                        *)

MaxDepth == 10

Call(path, depth, st) == [path |-> path, depth |-> depth, st |-> st]

\* as Pending, were a call to go on without waiting for the calls it made
NoPending(c) == {}

Pending(c) == {d \in calls : d.depth > c.depth /\ IsPrefix(c.path, d.path)}

Moved(c, st) == (calls \ {c}) \cup {Call(c.path, c.depth, st)}

InitOn(inputs) ==
    /\ input \in inputs
    /\ value = input
    /\ defs = EmptyMap
    /\ pc = "start"
    /\ calls = {}
    /\ flat = Null
    /\ run = 1
    /\ first = Null

Init == InitOn(Inputs)

\* the table built from the root's `$defs` and `definitions`
ExtractDefs(map) ==
    LET d1 == IF HasKey(map, "$defs") /\ map["$defs"].k = "obj"
              THEN map["$defs"].obj ELSE EmptyMap
    IN  IF HasKey(map, "definitions") /\ map["definitions"].k = "obj"
        THEN MapExtend(d1, map["definitions"].obj) ELSE d1

\* clean_json_schema up to its calls of flatten_refs and
\* clean_json_schema_recursive
Start ==
    /\ pc = "start"
    /\ IF value.k = "obj"
       THEN /\ defs' = ExtractDefs(value.obj)
            /\ value' = Obj(MapRemoveAll(value.obj, {"$defs", "definitions"}))
       ELSE /\ defs' = EmptyMap
            /\ value' = value
    /\ IF DOMAIN defs' # {}
       THEN pc' = "flatten" /\ calls' = {Call(<<>>, 1, "ref")}
       ELSE pc' = "clean" /\ calls' = {Call(<<>>, 1, "visit")}
    /\ flat' = IF pc' = "clean" THEN value' ELSE flat
    /\ UNCHANGED <<input, run, first>>

\* flatten_refs: the `$ref` of the call's own map, and the call on the same
\* map when a definition was merged
FlattenRef ==
    /\ pc = "flatten"
    /\ \E c \in calls :
        /\ c.st = "ref"
        /\ LET r == ResolveRef(Get(value, c.path).obj, defs)
           IN  /\ value' = Put(value, c.path, Obj(r.map))
               /\ IF r.merged /\ c.depth = MaxDepth
                  THEN pc' = "overflow" /\ calls' = calls
                  ELSE /\ pc' = pc
                       /\ calls' = Moved(c, "kids") \cup
                            (IF r.merged THEN {Call(c.path, c.depth + 1, "ref")} ELSE {})
    /\ UNCHANGED <<input, defs, flat, run, first>>

\* flatten_refs: the calls on the children, once the call on the same map
\* has returned
FlattenKids ==
    /\ pc = "flatten"
    /\ \E c \in calls :
        /\ c.st = "kids"
        /\ Pending(c) = {}
        /\ LET kids == FlattenChildren(Get(value, c.path).obj)
           IN  IF kids # {} /\ c.depth = MaxDepth
               THEN pc' = "overflow" /\ calls' = calls
               ELSE /\ pc' = pc
                    /\ calls' = Moved(c, "join") \cup
                         {Call(c.path \o k, c.depth + 1, "ref") : k \in kids}
    /\ UNCHANGED <<input, value, defs, flat, run, first>>

\* flatten_refs returns; clean_json_schema goes on to the cleaner
FlattenReturn ==
    /\ pc = "flatten"
    /\ \E c \in calls :
        /\ c.st = "join"
        /\ Pending(c) = {}
        /\ IF c.depth = 1
           THEN pc' = "clean" /\ calls' = {Call(<<>>, 1, "visit")}
           ELSE pc' = pc /\ calls' = calls \ {c}
    /\ flat' = IF pc' = "clean" THEN value ELSE flat
    /\ UNCHANGED <<input, value, defs, run, first>>

\* clean_json_schema_recursive: the call's own map, then the calls on the
\* children
CleanVisit ==
    /\ pc = "clean"
    /\ \E c \in calls :
        /\ c.st = "visit"
        /\ \E node \in {Get(value, c.path)} : \E new \in {CleanNode(node)} :
               /\ value' = Put(value, c.path, new)
               /\ calls' = Moved(c, "join") \cup
                    {Call(c.path \o k, c.depth + 1, "visit") : k \in CleanChildren(new)}
    /\ UNCHANGED <<input, defs, pc, flat, run, first>>

\* clean_json_schema_recursive returns; the outermost return ends
\* clean_json_schema
CleanReturn ==
    /\ pc = "clean"
    /\ \E c \in calls :
        /\ c.st = "join"
        /\ Pending(c) = {}
        /\ calls' = calls \ {c}
        /\ pc' = IF c.depth = 1 THEN "done" ELSE pc
    /\ UNCHANGED <<input, value, defs, flat, run, first>>

\* the caller applies clean_json_schema to its result
Reapply ==
    /\ pc = "done"
    /\ run = 1
    /\ run' = 2
    /\ first' = value
    /\ input' = value
    /\ pc' = "start"
    /\ UNCHANGED <<value, defs, calls, flat>>

Next ==
    \/ Start
    \/ FlattenRef
    \/ FlattenKids
    \/ FlattenReturn
    \/ CleanVisit
    \/ CleanReturn
    \/ Reapply

Spec == Init /\ [][Next]_vars

\* a call in progress takes its next step: the program is one thread, which
\* runs until clean_json_schema returns
FairSpec == InitOn(TerminationInputs) /\ [][Next]_vars /\ WF_vars(Next)

---------------------------------------------------------------------------
(* The three functions as the source runs them, one call after the other   *)

RECURSIVE FlattenRefs(_, _)
FlattenRefs(map, table) ==
    LET r == ResolveRef(map, table)
        own == IF r.merged THEN FlattenRefs(r.map, table) ELSE r.map
        Item(item) == IF item.k = "obj" THEN Obj(FlattenRefs(item.obj, table)) ELSE item
    IN  [x \in DOMAIN own |->
            CASE own[x].k = "obj" -> Obj(FlattenRefs(own[x].obj, table))
              [] own[x].k = "arr" -> Arr([i \in 1..Len(own[x].arr) |-> Item(own[x].arr[i])])
              [] OTHER -> own[x]]

RECURSIVE CleanJsonSchemaRecursive(_)
CleanJsonSchemaRecursive(val) ==
    CASE val.k = "obj" ->
            LET own == CleanOwn(val.obj)
            IN  Obj([x \in DOMAIN own |-> CleanJsonSchemaRecursive(own[x])])
      [] val.k = "arr" ->
            Arr([i \in 1..Len(val.arr) |-> CleanJsonSchemaRecursive(val.arr[i])])
      [] OTHER -> val

CleanJsonSchema(val) ==
    IF val.k = "obj"
    THEN LET table == ExtractDefs(val.obj)
             map == MapRemoveAll(val.obj, {"$defs", "definitions"})
         IN  CleanJsonSchemaRecursive(
                Obj(IF DOMAIN table # {} THEN FlattenRefs(map, table) ELSE map))
    ELSE CleanJsonSchemaRecursive(val)

---------------------------------------------------------------------------
(* What the properties speak of *)

\* the places of a value: its own, and those of its entries and elements
RECURSIVE Paths(_)
Paths(val) ==
    {<<>>} \cup
    CASE val.k = "obj" ->
            UNION {{<<Key(key)>> \o p : p \in Paths(val.obj[key])} : key \in DOMAIN val.obj}
      [] val.k = "arr" ->
            UNION {{<<Idx(i)>> \o p : p \in Paths(val.arr[i])} : i \in DOMAIN val.arr}
      [] OTHER -> {}

\* the object nodes of a value, at any depth
Objects(val) == {n \in {Get(val, p) : p \in Paths(val)} : n.k = "obj"}

\* the names, by final path segment, of the string `$ref`s anywhere in a value
RefNames(val) ==
    {LastSegment(n.obj["$ref"].str) :
        n \in {m \in Objects(val) : HasKey(m.obj, "$ref") /\ m.obj["$ref"].k = "str"}}

\* the definitions a definition refers to
RefersTo(table, a) == {b \in DOMAIN table : Spell(b) \in RefNames(table[a])}

RECURSIVE Reaches(_, _, _)
Reaches(table, from, n) ==
    IF n = 0 THEN from
    ELSE Reaches(table, from \cup UNION {RefersTo(table, b) : b \in from}, n - 1)

\* no definition of the table reaches itself
Acyclic(table) ==
    \A a \in DOMAIN table :
        a \notin Reaches(table, RefersTo(table, a), Cardinality(DOMAIN table))

TableOf(val) == IF val.k = "obj" THEN ExtractDefs(val.obj) ELSE EmptyMap

IsLower(s) == \A i \in DOMAIN s : \A j \in DOMAIN UpperChars : s[i] # UpperChars[j]

EndsWith(s, t) == Len(t) <= Len(s) /\ SubSeq(s, Len(s) - Len(t) + 1, Len(s)) = t

---------------------------------------------------------------------------
(* C1 *)

\* C1: after clean_json_schema returns, no object node at any depth has a
\* `$ref` key, whether the reference resolved, was missing from a non-empty
\* table, or the table was empty.
C1_NoRefLeft ==
    pc = "done" => \A n \in Objects(value) : ~HasKey(n.obj, "$ref")

---------------------------------------------------------------------------
(* C2 *)

RemovedKeys ==
    {"$schema", "additionalProperties", "enumCaseInsensitive",
     "enumNormalizeWhitespace", "uniqueItems", "format", "default",
     "minLength", "maxLength", "minimum", "maximum", "minItems", "maxItems",
     "exclusiveMinimum", "exclusiveMaximum", "multipleOf", "pattern"}

\* C2: after clean_json_schema returns, no object node at any depth, whatever
\* its role, has one of the seventeen removed keys.
C2_NoRemovedKeyLeft ==
    pc = "done" => \A n \in Objects(value) : DOMAIN n.obj \cap RemovedKeys = {}

\* a run has ended on a schema with removed keys in a definition merged into
\* a property, in a map under `properties` and in an object inside an array
C2_Witness ==
    /\ pc = "done"
    /\ run = 1
    /\ DOMAIN defs # {}
    /\ \E n \in Objects(flat) : DOMAIN n.obj \cap RemovedKeys # {}
    /\ \E p \in Paths(input) :
          /\ Len(p) > 2
          /\ p[Len(p)].idx > 0
          /\ p \in Paths(flat)
          /\ Get(flat, p).k = "obj"
          /\ DOMAIN Get(flat, p).obj \cap RemovedKeys # {}

---------------------------------------------------------------------------
(* C3 *)

\* C3: applying clean_json_schema to its own result leaves the result
\* unchanged.
C3_Idempotent ==
    (pc = "done" /\ run = 2) => value = first

---------------------------------------------------------------------------
(* C4 *)

---------------------------------------------------------------------------
(* C5 *)

\* the reference of a map names this entry of the table
Names(ref, key) == ref.k = "str" /\ (ref.str = Spell(key) \/ EndsWith(ref.str, <<"/">> \o Spell(key)))

\* the call of flatten_refs that takes its step
RefStepOf(c) == pc = "flatten" /\ c.st = "ref" /\ c \notin calls'

C5_Merge(c) ==
    LET old == Get(value, c.path).obj
        new == Get(value', c.path).obj
    IN  \A key \in DOMAIN defs :
            (HasKey(old, "$ref") /\ Names(old["$ref"], key) /\ defs[key].k = "obj") =>
                /\ \A x \in DOMAIN old \ {"$ref"} : HasKey(new, x) /\ new[x] = old[x]
                /\ \A x \in DOMAIN defs[key].obj \ (DOMAIN old \ {"$ref"}) :
                        HasKey(new, x) /\ new[x] = defs[key].obj[x]
                /\ DOMAIN new = (DOMAIN old \ {"$ref"}) \cup DOMAIN defs[key].obj
                /\ Call(c.path, c.depth + 1, "ref") \in calls'

\* C5: when flatten_refs meets an object whose string `$ref` names, by its
\* final segment, an object-valued definition, the object keeps its own value
\* for every key other than `$ref`, gains the definition's value for every key
\* it lacked, and is resolved again (a `$ref` the definition brought in
\* included), so the field nearest the referencing node wins.
C5_NearestWins ==
    [][\A c \in calls : RefStepOf(c) => C5_Merge(c)]_vars

\* a property with fields of its own has taken the fields it lacked from the
\* definition it named, and with them the definition's own `$ref`
C5_Witness ==
    /\ pc = "flatten"
    /\ run = 1
    /\ Call(<<Key("properties"), Key("home")>>, 4, "ref") \in calls
    /\ Get(value, <<Key("properties"), Key("home")>>) =
          Obj("$ref" :> RefTo("B") @@ "type" :> S_number @@ "description" :> S_desc
              @@ "format" :> S_city)

---------------------------------------------------------------------------
(* C6 *)

\* C6: after clean_json_schema returns on an object root, the root has
\* neither a `$defs` nor a `definitions` key.
C6_RootDefsGone ==
    (pc = "done" /\ value.k = "obj") =>
        ~HasKey(value.obj, "$defs") /\ ~HasKey(value.obj, "definitions")

---------------------------------------------------------------------------
(* C7 *)

IsScalar(val) == val.k \in {"null", "bool", "num", "str"}

\* the `type` of every object node is lowercase
TypesLower(val) ==
    \A n \in Objects(val) :
        HasKey(n.obj, "type") =>
            LET t == n.obj["type"]
            IN  /\ t.k = "str" => IsLower(t.str)
                /\ t.k = "arr" => \A i \in DOMAIN t.arr : t.arr[i].k = "str" => IsLower(t.arr[i].str)

\* the `type` arrays the cleaner found, and what they are now
TypeArrays ==
    {p \in Paths(flat) \cap Paths(value) :
        /\ Get(flat, p).k = "obj" /\ HasKey(Get(flat, p).obj, "type")
        /\ Get(flat, p).obj["type"].k = "arr"}

TypeArrayKept(p, Kept(_)) ==
    LET old == Get(flat, p).obj["type"].arr
        node == Get(value, p)
    IN  /\ node.k = "obj" /\ HasKey(node.obj, "type") /\ node.obj["type"].k = "arr"
        /\ Len(node.obj["type"].arr) = Len(old)
        /\ \A i \in DOMAIN old :
              IF old[i].k = "str"
              THEN node.obj["type"].arr[i] = Str(ToLowercase(old[i].str))
              ELSE Kept(old[i]) => node.obj["type"].arr[i] = old[i]

AnyValue(val) == TRUE

---------------------------------------------------------------------------
(* C8 *)

\* the call of clean_json_schema_recursive that takes its step
VisitStepOf(c) == pc = "clean" /\ c.st = "visit" /\ c \notin calls'

Labels ==
    [minLength |-> <<"m","i","n","L","e","n">>,
     maxLength |-> <<"m","a","x","L","e","n">>,
     minimum |-> <<"m","i","n">>,
     maximum |-> <<"m","a","x">>,
     minItems |-> <<"m","i","n","I","t","e","m","s">>,
     maxItems |-> <<"m","a","x","I","t","e","m","s">>,
     exclusiveMinimum |-> <<"e","x","c","l","M","i","n">>,
     exclusiveMaximum |-> <<"e","x","c","l","M","a","x">>,
     multipleOf |-> <<"m","u","l","t","i","p","l","e","O","f">>,
     pattern |-> <<"p","a","t","t","e","r","n">>]

FixedOrder ==
    <<"minLength", "maxLength", "minimum", "maximum", "minItems", "maxItems",
      "exclusiveMinimum", "exclusiveMaximum", "multipleOf", "pattern">>

\* " [Validation: <label>: <value>, ...]" for the keywords of a map
RECURSIVE Entries(_, _)
Entries(map, i) ==
    IF i > Len(FixedOrder) THEN <<>>
    ELSE LET rest == Entries(map, i + 1)
             key == FixedOrder[i]
         IN  IF key \in DOMAIN map
             THEN Labels[key] \o <<":", " ">> \o Display(map[key])
                  \o (IF rest = <<>> THEN <<>> ELSE <<",", " ">> \o rest)
             ELSE rest

Recorded(map) ==
    <<" ", "[", "V","a","l","i","d","a","t","i","o","n", ":", " ">>
    \o Entries(map, 1) \o <<"]">>

C8_Appended(c) ==
    LET old == Get(value, c.path)
        new == Get(value', c.path)
    IN  (old.k = "obj" /\ DOMAIN old.obj \cap DOMAIN Labels # {}) =>
            /\ HasKey(new.obj, "description")
            /\ new.obj["description"].k = "str"
            /\ IF ~HasKey(old.obj, "description")
               THEN new.obj["description"].str = Recorded(old.obj)
               ELSE IF old.obj["description"].k = "str"
               THEN new.obj["description"].str = old.obj["description"].str \o Recorded(old.obj)
               ELSE EndsWith(new.obj["description"].str, Recorded(old.obj))

\* C8: a node that holds validation keywords when the cleaner reaches it has
\* afterwards its previous description (the empty string when it had none)
\* followed by " [Validation: <label>: <value>, ...]", one entry per keyword
\* present, in the fixed order, whatever the previous value of `description`.
C8_Recorded ==
    [][\A c \in calls : VisitStepOf(c) => C8_Appended(c)]_vars

C8_AppendedToString(c) ==
    LET old == Get(value, c.path)
        new == Get(value', c.path)
    IN  (old.k = "obj" /\ DOMAIN old.obj \cap DOMAIN Labels # {}) =>
            /\ DOMAIN new.obj \cap DOMAIN Labels = {}
            /\ HasKey(new.obj, "description")
            /\ IF ~HasKey(old.obj, "description")
               THEN new.obj["description"] = Str(Recorded(old.obj))
               ELSE IF old.obj["description"].k = "str"
               THEN new.obj["description"] = Str(old.obj["description"].str \o Recorded(old.obj))
               ELSE new.obj["description"] = old.obj["description"]

\* C8, as far as the cleaner goes: the text is appended when the previous
\* `description` is absent or a string; a `description` that holds anything
\* else is left as it is, and the keywords are removed without being
\* recorded.
C8_RecordedInString ==
    [][\A c \in calls : VisitStepOf(c) => C8_AppendedToString(c)]_vars

\* the cleaner has appended three constraints, one of them a pattern that
\* needs escaping, to the description of a property
C8_Witness ==
    /\ pc = "clean"
    /\ Call(<<Key("properties"), Key("home")>>, 3, "join") \in calls
    /\ <<Key("properties"), Key("home")>> \in Paths(flat)
    /\ Get(flat, <<Key("properties"), Key("home")>>).k = "obj"
    /\ HasKey(Get(flat, <<Key("properties"), Key("home")>>).obj, "description")
    /\ Get(flat,<<Key("properties"), Key("home")>>).obj["description"] = S_desc
    /\ Get(value, <<Key("properties"), Key("home")>>).obj["description"] =
          Str(<<"d", " ", "[", "V","a","l","i","d","a","t","i","o","n", ":", " ",
                "m","i","n", ":", " ", "0", ",", " ",
                "m","a","x", ":", " ", "1", "0", ",", " ",
                "p","a","t","t","e","r","n", ":", " ",
                "\"", "^", "\\", "\\", "d", "\\", "\"", "\"", "]">>)

---------------------------------------------------------------------------
(* C9 *)

\* C9: whatever the order, and the interleaving, in which the calls on the
\* children of a node run, the transform ends with the tree that the calls
\* run one after the other produce.
C9_OrderIndependent ==
    pc = "done" => value = CleanJsonSchema(input)

\* calls on two children of one node are under way at once, one of them
\* ahead of the other, in the flattener
C9_Witness ==
    /\ pc = "flatten"
    /\ \E c \in calls, d \in calls :
          /\ Len(c.path) = Len(d.path)
          /\ Len(c.path) > 0
          /\ c.path # d.path
          /\ SubSeq(c.path, 1, Len(c.path) - 1) = SubSeq(d.path, 1, Len(d.path) - 1)
          /\ c.st = "join"
          /\ d.st = "ref"
          /\ HasKey(Get(value, d.path).obj, "$ref")

---------------------------------------------------------------------------
(* C10 *)

\* C10: when no definition of the table reaches itself, clean_json_schema
\* terminates.
C10_Terminates ==
    (pc = "start" /\ Acyclic(TableOf(value))) ~> (pc = "done")

\* a run under a table whose definitions refer to one another without a
\* cycle has gone through the flattener and the cleaner and ended
C10_Witness ==
    /\ pc = "done"
    /\ run = 1
    /\ Acyclic(defs)
    /\ \E a \in DOMAIN defs : RefersTo(defs, a) # {}
    /\ flat # input
    /\ value # flat
=============================================================================
